---- MODULE Spec2Model ----
(***************************************************************************)
(* Model of scripts/train_models.py: lstm_model (the single-cell recurrent *)
(* forecaster) and the part of main / load_dataset that calls it.          *)
(*                                                                         *)
(* Reals are fixed-point integers with Scale units per 1.0 (5.0 is 5000).  *)
(* exp-based activations are computed through tanh, sigmoid(x) being       *)
(* (1 + tanh(x/2)) / 2, and tanh by its (3,2) Pade form clamped at |x|>=3. *)
(* numpy's seeded generator is a counter-based stream: what is kept of it  *)
(* is that a draw is a function of the seed and of its position in the     *)
(* stream.  A Python None is the empty tuple, a value v that may be None   *)
(* is <<v>>.                                                               *)
(***************************************************************************)
EXTENDS Integers, Sequences, FiniteSets, TLC

\* ---------------------------------------------------------------- bounds
MaxLen      == 4      \* longest series passed by a direct caller
MaxLookback == 2      \* largest small lookback passed by a direct caller
MaxEpochs   == 2      \* largest epochs passed by a direct caller
MaxCalls    == 2      \* calls of lstm_model made by one process
MaxRows     == 2      \* rows of a short data file read by main
Scale       == 1000   \* fixed-point units per 1.0

\* ------------------------------------------------------ program constants
input_size       == 1
hidden_size      == 8
Seed             == 0
lr               == Scale \div 100        \* 0.01
WeightScale      == Scale \div 10         \* 0.1
DefaultEpochs    == 10
DefaultLookback  == 24

Values    == {5 * Scale, 7 * Scale}
Lookbacks == (1 .. MaxLookback) \cup {DefaultLookback}

SeqsUpTo(S, n) == UNION {[1 .. m -> S] : m \in 0 .. n}

\* --------------------------------------------------------- Python helpers
Min(a, b) == IF a < b THEN a ELSE b
Max(a, b) == IF a > b THEN a ELSE b

\* range(n): the indices 0 .. n-1, empty when n <= 0
RangeLen(n) == Max(n, 0)

\* The slice with its stop included.
PySlice_incl(s, start, stop) ==
    LET n  == Len(s)
        lo == IF start < 0 THEN Max(n + start, 0) ELSE Min(start, n)
        hi == IF stop = <<>> THEN n ELSE Min(stop[1] + 1, n)
    IN  IF hi <= lo THEN <<>> ELSE SubSeq(s, lo + 1, hi)

\* s[start:stop] on a list, 0-based, with Python's negative-index and
\* clamping rules; stop = <<>> is an omitted stop.
PyIndex(n, j) == IF j < 0 THEN Max(n + j, 0) ELSE Min(j, n)
PySlice(s, start, stop) ==
    LET n  == Len(s)
        lo == PyIndex(n, start)
        hi == IF stop = <<>> THEN n ELSE PyIndex(n, stop[1])
    IN  IF hi <= lo THEN <<>> ELSE SubSeq(s, lo + 1, hi)

\* s[j] for 0 <= j: defined only inside the list (IndexError otherwise)
InRange(s, j) == j >= 0 /\ j < Len(s)

\* The naive forecast taken from the wrong end of the list.
Naive_first(s) == IF Len(s) > 0 THEN s[1] ELSE 0

\* series[-1] if series else 0.0
Naive(s) == IF Len(s) > 0 THEN s[Len(s)] ELSE 0

\* ------------------------------------------------------------ arithmetic
Mul(a, b) == (a * b) \div Scale

tanh[x \in Int] ==
    IF x >= 3 * Scale THEN Scale
    ELSE IF x <= -(3 * Scale) THEN -Scale
    ELSE LET q == (x * x) \div Scale
         IN  (x * (27 * Scale + q)) \div (27 * Scale + 9 * q)

\* 1 / (1 + exp(-x))
sigmoid[x \in Int] == (Scale + tanh[x \div 2]) \div 2

zeros(n) == [j \in 1 .. n |-> 0]

RECURSIVE SumTo(_, _)
SumTo(f, n) == IF n = 0 THEN 0 ELSE f[n] + SumTo(f, n - 1)

\* (v @ M)[j - 1] for a vector v and a matrix M[row][col]
Dot(v, M, j) == SumTo([r \in 1 .. Len(v) |-> v[r] * M[r][j]], Len(v)) \div Scale

\* ------------------------------------------------------- seeded generator
\* The generator is counter-based: draw n of a stream is a mix of the seed
\* and of n.
Mix(x) == (x * x + 75 * x + 74) % 32749

Draw(seed, n) == Mix(Mix((4099 * seed + n) % 32749))

\* standard_normal: a draw in about [-3.0, 3.0]
Normal(u) == (u % (6 * Scale + 1)) - 3 * Scale

GateRows   == input_size + hidden_size
GateDraws  == GateRows * hidden_size

\* rng.standard_normal(shape) * 0.1, entry n of the stream of default_rng(seed)
standard_normal(seed, n) == Mul(Normal(Draw(seed, n)), WeightScale)

\* The draws are taken in the order Wf, Wi, Wc, Wo, Wy, row by row.
GateMatrix(seed, g) ==
    [r \in 1 .. GateRows |->
        [j \in 1 .. hidden_size |->
            standard_normal(seed, g * GateDraws + (r - 1) * hidden_size + j)]]

OutVector(seed) ==
    [j \in 1 .. hidden_size |-> standard_normal(seed, 4 * GateDraws + j)]

InitialWeights(seed) ==
    [Wf |-> GateMatrix(seed, 0), Wi |-> GateMatrix(seed, 1),
     Wc |-> GateMatrix(seed, 2), Wo |-> GateMatrix(seed, 3),
     Wy |-> OutVector(seed)]

SeededWeights == InitialWeights(Seed)

\* ------------------------------------------------------------------ state
VARIABLES
    np,             \* module level: TRUE when "import numpy" succeeded
    pc,             \* position of the running code
    caller,         \* "direct" or "main"
    ncalls,         \* calls of lstm_model made so far by this process
    series, epochs, lookback,           \* arguments of lstm_model
    i, X, y,                            \* training-data loop and its lists
    Wf, Wi, Wc, Wo, Wy,                 \* weights
    ep, ex, seq, target, k, h, c,       \* loops over epochs, examples, values
    result,         \* <<v>> once lstm_model has returned v
    prev,           \* <<v>> when the previous call had the same arguments
    trav, hfrom,    \* traversals started; the traversal that produced h, c
    log,            \* the <<epoch, example>> pairs of the Wy updates so far
    data,           \* main: the mapping returned by load_dataset
    lstm_forecast,  \* main: None or the value returned by lstm_model
    out             \* main: the LSTM line printed

args    == <<series, epochs, lookback>>
loops   == <<i, X, y, ep, ex, seq, target, k, h, c>>
gates   == <<Wf, Wi, Wc, Wo>>
ghost   == <<trav, hfrom, log>>
mainv   == <<data, lstm_forecast, out>>
vars    == <<np, pc, caller, ncalls, args, loops, gates, Wy, result, prev,
             ghost, mainv>>

NoData == [has |-> FALSE, wind_speed |-> <<>>]

Init ==
    /\ np \in BOOLEAN
    /\ pc = "idle"
    /\ caller = "direct"
    /\ ncalls = 0
    /\ series = <<>> /\ epochs = 0 /\ lookback = 1
    /\ i = 0 /\ X = <<>> /\ y = <<>>
    /\ Wf = <<>> /\ Wi = <<>> /\ Wc = <<>> /\ Wo = <<>> /\ Wy = <<>>
    /\ ep = 0 /\ ex = 0 /\ seq = <<>> /\ target = 0 /\ k = 0
    /\ h = <<>> /\ c = <<>>
    /\ result = <<>> /\ prev = <<>>
    /\ trav = 0 /\ hfrom = 0 /\ log = <<>>
    /\ data = NoData /\ lstm_forecast = <<>> /\ out = "nothing"

\* ------------------------------------------------------------- lstm_model
\* The guard with <= for <, and the guard without the + 1.
TooShort_wide(s, l) == Len(s) <= l + 1
TooShort_forecast(s, l) == Len(s) < l

\* The guard of the naive forecast.
TooShort(s, l) == Len(s) < l + 1

\* Entry of lstm_model(s, e, l): a new frame, then the guard and either the
\* naive return or the start of the training-data loop.
Enter(s, e, l) ==
    /\ series' = s /\ epochs' = e /\ lookback' = l
    /\ ncalls' = ncalls + 1
    /\ i' = 0 /\ X' = <<>> /\ y' = <<>>
    /\ Wf' = <<>> /\ Wi' = <<>> /\ Wc' = <<>> /\ Wo' = <<>> /\ Wy' = <<>>
    /\ ep' = 0 /\ ex' = 0 /\ seq' = <<>> /\ target' = 0 /\ k' = 0
    /\ h' = <<>> /\ c' = <<>>
    /\ trav' = 0 /\ hfrom' = 0 /\ log' = <<>>
    /\ IF ~np \/ TooShort(s, l)
       THEN result' = <<Naive(s)>> /\ pc' = "done"
       ELSE result' = <<>> /\ pc' = "build"

\* A caller other than main calls lstm_model.
Call ==
    /\ pc = "idle" /\ ncalls < MaxCalls
    /\ \E s \in SeqsUpTo(Values, MaxLen), e \in 0 .. MaxEpochs, l \in Lookbacks :
          Enter(s, e, l)
    /\ caller' = "direct" /\ prev' = <<>>
    /\ UNCHANGED <<np, mainv>>

\* The training-data loop running one index too far.
Build_over ==
    /\ pc = "build"
    /\ IF i < RangeLen(Len(series) - lookback + 1)
       THEN IF InRange(series, i + lookback)
            THEN /\ X' = Append(X, PySlice(series, i, <<i + lookback>>))
                 /\ y' = Append(y, series[i + lookback + 1])
                 /\ i' = i + 1
                 /\ pc' = "build"
            ELSE /\ pc' = "raised"
                 /\ UNCHANGED <<i, X, y>>
       ELSE /\ pc' = "weights"
            /\ UNCHANGED <<i, X, y>>
    /\ UNCHANGED <<np, caller, ncalls, args, ep, ex, seq, target, k, h, c,
                   gates, Wy, result, prev, ghost, mainv>>

\* for i in range(len(series) - lookback): X.append(...); y.append(...)
Build ==
    /\ pc = "build"
    /\ IF i < RangeLen(Len(series) - lookback)
       THEN IF InRange(series, i + lookback)
            THEN /\ X' = Append(X, PySlice(series, i, <<i + lookback>>))
                 /\ y' = Append(y, series[i + lookback + 1])
                 /\ i' = i + 1
                 /\ pc' = "build"
            ELSE /\ pc' = "raised"
                 /\ UNCHANGED <<i, X, y>>
       ELSE /\ pc' = "weights"
            /\ UNCHANGED <<i, X, y>>
    /\ UNCHANGED <<np, caller, ncalls, args, ep, ex, seq, target, k, h, c,
                   gates, Wy, result, prev, ghost, mainv>>

\* The generator left unseeded: every call draws other weights.
Weights_unseeded ==
    /\ pc = "weights"
    /\ LET W == InitialWeights(ncalls)
       IN  /\ Wf' = W.Wf /\ Wi' = W.Wi /\ Wc' = W.Wc /\ Wo' = W.Wo
           /\ Wy' = W.Wy
    /\ ep' = 0
    /\ pc' = "epoch"
    /\ UNCHANGED <<np, caller, ncalls, args, i, X, y, ex, seq, target, k, h, c,
                   result, prev, ghost, mainv>>

\* rng = np.random.default_rng(0); Wf .. Wy = rng.standard_normal(...) * 0.1
Weights ==
    /\ pc = "weights"
    /\ LET W == SeededWeights
       IN  /\ Wf' = W.Wf /\ Wi' = W.Wi /\ Wc' = W.Wc /\ Wo' = W.Wo
           /\ Wy' = W.Wy
    /\ ep' = 0
    /\ pc' = "epoch"
    /\ UNCHANGED <<np, caller, ncalls, args, i, X, y, ex, seq, target, k, h, c,
                   result, prev, ghost, mainv>>

\* The cell: one gate step on input x_t from (h_prev, c_prev); the gates
\* are written per hidden unit j.
step(x_t, h_prev, c_prev) ==
    LET z        == x_t \o h_prev
        f(j)     == sigmoid[Dot(z, Wf, j)]
        ig(j)    == sigmoid[Dot(z, Wi, j)]
        c_hat(j) == tanh[Dot(z, Wc, j)]
        cn(j)    == Mul(f(j), c_prev[j]) + Mul(ig(j), c_hat(j))
        o(j)     == sigmoid[Dot(z, Wo, j)]
        hn(j)    == Mul(o(j), tanh[cn(j)])
    IN  [h |-> [j \in 1 .. hidden_size |-> hn(j)],
         c |-> [j \in 1 .. hidden_size |-> cn(j)]]

\* h @ Wy, element 0
Project(hv, W) == SumTo([j \in 1 .. hidden_size |-> hv[j] * W[j]], hidden_size) \div Scale

\* The epoch loop running once more than asked.
Epoch_extra ==
    /\ pc = "epoch"
    /\ IF ep < RangeLen(epochs + 1)
       THEN ex' = 0 /\ pc' = "example"
       ELSE ex' = ex /\ pc' = "forecast"
    /\ UNCHANGED <<np, caller, ncalls, args, i, X, y, ep, seq, target, k, h, c,
                   gates, Wy, result, prev, ghost, mainv>>

\* for _ in range(epochs):
Epoch ==
    /\ pc = "epoch"
    /\ IF ep < RangeLen(epochs)
       THEN ex' = 0 /\ pc' = "example"
       ELSE ex' = ex /\ pc' = "forecast"
    /\ UNCHANGED <<np, caller, ncalls, args, i, X, y, ep, seq, target, k, h, c,
                   gates, Wy, result, prev, ghost, mainv>>

\* for seq, target in zip(X, y): h = zeros; c = zeros
Example ==
    /\ pc = "example"
    /\ IF ex < Min(Len(X), Len(y))
       THEN /\ seq' = X[ex + 1] /\ target' = y[ex + 1]
            /\ h' = zeros(hidden_size) /\ c' = zeros(hidden_size)
            /\ k' = 0
            /\ trav' = trav + 1 /\ hfrom' = 0
            /\ ep' = ep
            /\ pc' = "fold"
       ELSE /\ ep' = ep + 1
            /\ pc' = "epoch"
            /\ UNCHANGED <<seq, target, k, h, c, trav, hfrom>>
    /\ UNCHANGED <<np, caller, ncalls, args, i, X, y, ex, gates, Wy, result,
                   prev, log, mainv>>

\* for value in seq: h, c = step(np.array([value]), h, c)
FoldBody(next) ==
    /\ IF k < Len(seq)
       THEN LET s == step(<<seq[k + 1]>>, h, c)
            IN  /\ h' = s.h /\ c' = s.c
                /\ k' = k + 1
                /\ hfrom' = trav
                /\ pc' = pc
       ELSE /\ pc' = next
            /\ UNCHANGED <<k, h, c, hfrom>>
    /\ UNCHANGED <<np, caller, ncalls, args, i, X, y, ep, ex, seq, target,
                   gates, Wy, result, prev, trav, log, mainv>>

Fold == pc = "fold" /\ FoldBody("update")

\* The update carried into the output gate as well.
Update_gates ==
    /\ pc = "update"
    /\ LET y_pred == Project(h, Wy)
           error  == y_pred - target
       IN  /\ Wy' = [j \in 1 .. hidden_size |-> Wy[j] - Mul(Mul(lr, error), h[j])]
           /\ Wo' = [r \in 1 .. GateRows |->
                       [j \in 1 .. hidden_size |-> Wo[r][j] - Mul(Mul(lr, error), h[j])]]
    /\ log' = Append(log, <<ep, ex>>)
    /\ ex' = ex + 1
    /\ pc' = "example"
    /\ UNCHANGED <<np, caller, ncalls, args, i, X, y, ep, seq, target, k, h, c,
                   Wf, Wi, Wc, result, prev, trav, hfrom, mainv>>

\* y_pred = h @ Wy; error = y_pred[0] - target; Wy -= lr * error * h
Update ==
    /\ pc = "update"
    /\ LET y_pred == Project(h, Wy)
           error  == y_pred - target
       IN  Wy' = [j \in 1 .. hidden_size |-> Wy[j] - Mul(Mul(lr, error), h[j])]
    /\ log' = Append(log, <<ep, ex>>)
    /\ ex' = ex + 1
    /\ pc' = "example"
    /\ UNCHANGED <<np, caller, ncalls, args, i, X, y, ep, seq, target, k, h, c,
                   gates, result, prev, trav, hfrom, mainv>>

\* The forecast fold going on from the state the training loop left.
Forecast_keep ==
    /\ pc = "forecast"
    /\ seq' = PySlice(series, -lookback, <<>>)
    /\ k' = 0
    /\ trav' = trav + 1
    /\ pc' = "ffold"
    /\ UNCHANGED <<np, caller, ncalls, args, i, X, y, ep, ex, target, gates, Wy,
                   h, c, hfrom, result, prev, log, mainv>>

\* Forecast next value: h = zeros; c = zeros; the values series[-lookback:]
Forecast ==
    /\ pc = "forecast"
    /\ seq' = PySlice(series, -lookback, <<>>)
    /\ h' = zeros(hidden_size) /\ c' = zeros(hidden_size)
    /\ k' = 0
    /\ trav' = trav + 1 /\ hfrom' = 0
    /\ pc' = "ffold"
    /\ UNCHANGED <<np, caller, ncalls, args, i, X, y, ep, ex, target, gates, Wy,
                   result, prev, log, mainv>>

ForecastFold == pc = "ffold" /\ FoldBody("return")

\* return float((h @ Wy)[0])
Return ==
    /\ pc = "return"
    /\ result' = <<Project(h, Wy)>>
    /\ pc' = "done"
    /\ UNCHANGED <<np, caller, ncalls, args, loops, gates, Wy, prev, ghost, mainv>>

\* The direct caller has its value and the process goes on.
Resume ==
    /\ pc = "done" /\ caller = "direct"
    /\ pc' = "idle"
    /\ UNCHANGED <<np, caller, ncalls, args, loops, gates, Wy, result, prev,
                   ghost, mainv>>

\* The direct caller calls again with the same arguments.
Again ==
    /\ pc = "done" /\ caller = "direct" /\ ncalls < MaxCalls
    /\ prev' = result
    /\ Enter(series, epochs, lookback)
    /\ UNCHANGED <<np, caller, mainv>>

\* ------------------------------------------------------------------- main
\* A cell of the wind_speed column: text that float() parses to v, or not.
Cells == [num : {TRUE}, v : Values] \cup {[num |-> FALSE, v |-> 0]}

\* The data files: short ones, and one with a row more than the default
\* lookback, every value 1.0.
LongRows == [n \in 1 .. DefaultLookback + 1 |-> [num |-> TRUE, v |-> Scale]]
Files == [header : BOOLEAN, rows : SeqsUpTo(Cells, MaxRows) \cup {LongRows}]

\* load_dataset, for the wind_speed column: columns[k] is created by the
\* subscript of columns[k].append(float(v)) before float(v) can fail, and
\* the value is appended only when the cell parses.
RECURSIVE load_rows(_, _)
load_rows(rows, columns) ==
    IF rows = <<>> THEN columns
    ELSE LET cell == Head(rows)
             col  == IF cell.num THEN Append(columns.wind_speed, cell.v)
                     ELSE columns.wind_speed
         IN  load_rows(Tail(rows), [has |-> TRUE, wind_speed |-> col])

load_dataset(file) ==
    IF file.header THEN load_rows(file.rows, NoData) ELSE NoData

\* main up to the call: data = load_dataset(DATA_PATH); lstm_forecast = None;
\* if "wind_speed" in data: lstm_forecast = lstm_model(data["wind_speed"])
Main ==
    /\ pc = "idle" /\ ncalls = 0
    /\ \E file \in Files :
          LET d == load_dataset(file)
          IN  /\ data' = d
              /\ IF d.has
                 THEN Enter(d.wind_speed, DefaultEpochs, DefaultLookback)
                 ELSE /\ pc' = "print"
                      /\ UNCHANGED <<ncalls, args, loops, gates, Wy, result, ghost>>
    /\ caller' = "main"
    /\ lstm_forecast' = <<>>
    /\ UNCHANGED <<np, prev, out>>

\* lstm_forecast = <the value returned>
MainAssign ==
    /\ pc = "done" /\ caller = "main"
    /\ lstm_forecast' = result
    /\ pc' = "print"
    /\ UNCHANGED <<np, caller, ncalls, args, loops, gates, Wy, result, prev,
                   ghost, data, out>>

\* if lstm_forecast is None: print("LSTM model could not run ...")
\* else: print("LSTM next wind_speed:", lstm_forecast)
MainPrint ==
    /\ pc = "print"
    /\ out' = IF lstm_forecast = <<>> THEN "LSTM model could not run"
              ELSE "LSTM next wind_speed:"
    /\ pc' = "exit"
    /\ UNCHANGED <<np, caller, ncalls, args, loops, gates, Wy, result, prev,
                   ghost, data, lstm_forecast>>

\* ---------------------------------------------------------- specification
Next ==
    \/ Call
    \/ Build
    \/ Weights
    \/ Epoch
    \/ Example
    \/ Fold
    \/ Update
    \/ Forecast
    \/ ForecastFold
    \/ Return
    \/ Resume
    \/ Again
    \/ Main
    \/ MainAssign
    \/ MainPrint

Spec == Init /\ [][Next]_vars

\* The code is straight-line and single-threaded: a call that has started
\* keeps running.
Running ==
    Build \/ Weights \/ Epoch \/ Example \/ Fold \/ Update \/ Forecast
      \/ ForecastFold \/ Return

FairSpec == Spec /\ WF_vars(Running)

TypeOK ==
    /\ np \in BOOLEAN
    /\ pc \in {"idle", "build", "weights", "epoch", "example", "fold", "update",
               "forecast", "ffold", "return", "done", "raised", "print", "exit"}
    /\ ncalls \in 0 .. MaxCalls

\* ----------------------------------------------------------- properties
\* The values the forecast fold reads, written out index by index.
LastWindow == [m \in 1 .. lookback |-> series[Len(series) - lookback + m]]

\* The fold of a list of values through the cell, from (hv, cv).
RECURSIVE FoldAll(_, _, _)
FoldAll(vals, hv, cv) ==
    IF vals = <<>> THEN [h |-> hv, c |-> cv]
    ELSE LET s == step(<<Head(vals)>>, hv, cv)
         IN  FoldAll(Tail(vals), s.h, s.c)

\* The projection h . Wy of the last lookback values from a zero state.
Projection ==
    Project(FoldAll(LastWindow, zeros(hidden_size), zeros(hidden_size)).h, Wy)

\* The last observed value, or 0.0.
LastOrZero == IF series = <<>> THEN 0 ELSE series[Len(series)]

Returned == pc = "done"
Computed == trav > 0
NoWeights == Wf = <<>> /\ Wi = <<>> /\ Wc = <<>> /\ Wo = <<>> /\ Wy = <<>>

\* C1: a call with len(series) < lookback returns the last element of the
\* series, or 0.0 for an empty series, whatever epochs is, whether or not
\* numpy is there, and whatever calls came before.
C1_ShortSeriesNaive ==
    (Returned /\ Len(series) < lookback) => result = <<LastOrZero>>

C1_Witness ==
    /\ Returned /\ np /\ ncalls = 2 /\ epochs > 0
    /\ Len(series) = 2 /\ series[1] # series[2] /\ Len(series) < lookback
    /\ result = <<series[2]>>

\* C2 as claimed: with numpy, every call with len(series) >= lookback,
\* len(series) = lookback included, returns the projection h . Wy.
C2_Claimed ==
    (Returned /\ np /\ Len(series) >= lookback)
        => (Computed /\ result = <<Projection>>)

\* C2 amended: with numpy, the naive path is taken exactly when
\* len(series) < lookback + 1; a call with len(series) >= lookback + 1
\* returns the projection h . Wy of the last lookback values folded from a
\* zero state, and a call with len(series) = lookback returns the last value.
C2_FallbackBoundary ==
    (Returned /\ np) =>
        IF Len(series) >= lookback + 1
        THEN Computed /\ result = <<Projection>>
        ELSE ~Computed /\ result = <<LastOrZero>>

C2_Witness ==
    /\ Returned /\ np /\ Len(series) = lookback + 1 /\ epochs > 0
    /\ Computed /\ result = <<Projection>> /\ result # <<LastOrZero>>

\* C3: training writes Wy only: from their initialisation on, Wf, Wi, Wc
\* and Wo are the seeded initial matrices in every state.
C3_GatesFrozen ==
    (pc \in {"epoch", "example", "fold", "update", "forecast", "ffold", "return"}
       \/ Computed) =>
        /\ Wf = SeededWeights.Wf /\ Wi = SeededWeights.Wi
        /\ Wc = SeededWeights.Wc /\ Wo = SeededWeights.Wo

C3_Witness ==
    /\ Returned /\ Computed /\ Len(log) >= 2
    /\ Wy # SeededWeights.Wy
    /\ Wo = SeededWeights.Wo

\* C4: a call with len(series) < lookback + 1 trains nothing: no weight is
\* ever written, no window is built, no example is processed, and the value
\* returned is the last one; [5.0, 7.0] with lookback 24 returns 7.0.
C4_ShortTrainNoop ==
    (Len(series) < lookback + 1) =>
        /\ NoWeights /\ X = <<>> /\ y = <<>> /\ log = <<>> /\ ~Computed
        /\ pc \notin {"build", "weights", "epoch", "example", "fold", "update",
                      "forecast", "ffold", "return"}
        /\ (Returned /\ series = <<5 * Scale, 7 * Scale>> /\ lookback = 24)
              => result = <<7 * Scale>>

C4_Witness ==
    /\ Returned /\ np /\ series = <<5 * Scale, 7 * Scale>> /\ lookback = 24
    /\ result = <<7 * Scale>> /\ NoWeights

\* C5: a call made right after a call with the same series, lookback and
\* epochs returns the same value: no weight and no hidden or cell state
\* of the first call reaches the second.
C5_SameInputsSameForecast ==
    (Returned /\ prev # <<>>) => result = prev

C5_Witness ==
    /\ Returned /\ prev # <<>> /\ result = prev
    /\ Computed /\ Len(log) >= 2 /\ Wy # SeededWeights.Wy

InCall ==
    pc \in {"build", "weights", "epoch", "example", "fold", "update",
            "forecast", "ffold", "return"}

\* C6: for every series, positive lookback and epochs >= 0, a call never
\* raises, it returns, and what it returns is either the projection h . Wy
\* or the naive value (last element, 0.0 for an empty series).
C6_ReturnsOneOfTwo ==
    /\ [](pc # "raised")
    /\ [](Returned =>
            \/ Computed /\ result = <<Projection>>
            \/ ~Computed /\ result = <<LastOrZero>>)
    /\ (InCall ~> Returned)

C6_Witness ==
    /\ Returned /\ np /\ epochs = 0 /\ Len(series) > lookback
    /\ Computed /\ log = <<>> /\ result = <<Projection>>

\* C7: the Wy updates happen one example at a time, epoch after epoch and,
\* inside an epoch, example after example: the j-th update is that of epoch
\* (j-1) div n and example (j-1) mod n, n = len(series) - lookback; when an
\* example is being folded all the updates before it are done, and the
\* forecast fold starts after exactly epochs * n updates.
C7_SequentialUpdates ==
    LET n == Len(series) - lookback
    IN  /\ \A j \in 1 .. Len(log) : log[j] = <<(j - 1) \div n, (j - 1) % n>>
        /\ (pc \in {"fold", "update"}) => Len(log) = ep * n + ex
        /\ (pc \in {"forecast", "ffold", "return"} \/ (Returned /\ Computed))
              => Len(log) = epochs * n

C7_Witness ==
    /\ pc = "forecast" /\ epochs = 2 /\ Len(series) - lookback = 2
    /\ log = << <<0, 0>>, <<0, 1>>, <<1, 0>>, <<1, 1>> >>

BuildDone ==
    pc \in {"weights", "epoch", "example", "fold", "update", "forecast",
            "ffold", "return"} \/ (Returned /\ Computed)

\* C8: the training data are the len(series) - lookback pairs
\* (series[i : i+lookback], series[i+lookback]), i from 0: every window has
\* exactly lookback values and every index used lies inside the series.
C8_Windows ==
    /\ Len(y) = Len(X)
    /\ \A j \in 1 .. Len(X) :
          /\ Len(X[j]) = lookback
          /\ j + lookback <= Len(series)
          /\ X[j] = [m \in 1 .. lookback |-> series[j - 1 + m]]
          /\ y[j] = series[j + lookback]
    /\ (pc = "build") => (Len(X) = i /\ i <= Len(series) - lookback)
    /\ BuildDone => (Len(X) = Len(series) - lookback /\ Len(X) >= 1)

C8_Witness ==
    /\ pc = "weights" /\ lookback = 2 /\ Len(series) = 4
    /\ Len(X) = 2 /\ X[1] # X[2] /\ y[1] # y[2]

\* C9: every traversal of a window, each training example of each epoch and
\* the forecast fold, starts from h = c = 0, and the h, c a gate step reads
\* were produced by the traversal it belongs to, or are the zero state.
C9_FreshState ==
    (pc \in {"fold", "ffold"}) =>
        /\ (k = 0) => (h = zeros(hidden_size) /\ c = zeros(hidden_size)
                        /\ hfrom = 0)
        /\ hfrom \in {0, trav}

C9_Witness ==
    /\ pc = "ffold" /\ k = 0 /\ trav >= 3
    /\ h = zeros(hidden_size) /\ c = zeros(hidden_size)

\* C10: main prints "LSTM model could not run ..." whenever numpy is missing
\* or wind_speed has fewer than lookback + 1 values, and prints
\* "LSTM next wind_speed:" only when the LSTM was trained and run.
C10_Claimed ==
    (pc = "exit") =>
        /\ (~np \/ Len(data.wind_speed) < DefaultLookback + 1)
              => out = "LSTM model could not run"
        /\ (out = "LSTM next wind_speed:") => Computed
====
